---- MODULE Spec2Model ----
(***************************************************************************)
(* Model of the lexical scanner of lex.go: the lexer's cursor and channel, *)
(* its state functions, the nextItem engine and the driver loop of main.   *)
(*                                                                         *)
(* The input is a Go string, modelled as a sequence of bytes.  An ASCII    *)
(* byte is the one-character string of its character; the two bytes of    *)
(* the UTF-8 encoding of U+00E9 are "0xC3" and "0xA9".  Offsets (start,    *)
(* pos) are 0-based byte offsets as in Go; input[k+1] is the byte at       *)
(* offset k.  A Go string value (item.val) is a sequence of fragments      *)
(* whose concatenation is the string: the bytes of an input slice, or the  *)
(* text of a formatted message.                                            *)
(***************************************************************************)
EXTENDS Integers, Sequences, FiniteSets, TLC

VARIABLES input, state, start, pos, width, items, pc, received, hist, blocked, trail, last

vars == <<input, state, start, pos, width, items, pc, received, hist, blocked, trail, last>>

(***************************************************************************)
(* Bounds of the model.                                                    *)
(***************************************************************************)
MaxLen == 5
MaxLenLive == 4

(***************************************************************************)
(* Program constants.                                                      *)
(***************************************************************************)
itemError == "itemError"
itemEOF == "itemEOF"
itemLeftMeta == "itemLeftMeta"
itemRightMeta == "itemRightMeta"
itemNumber == "itemNumber"
itemText == "itemText"

leftMeta == <<"{", "{">>
rightMeta == <<"}", "}">>

eof == "eof"

digits == {"0", "1", "2", "3", "4", "5", "6", "7", "8", "9"}

ItemsCap == 2

RuneError == "�"

(***************************************************************************)
(* Inputs.  Every byte sequence over Alphabet up to the bound, the inputs   *)
(* of the scenarios of the specification, and inputs with tabs, a minus    *)
(* sign and a two-byte rune.                                               *)
(***************************************************************************)
Alphabet == {"{", "}", " ", "\n", "+", "1", "0xA9"}

RECURSIVE SeqsUpTo(_)
SeqsUpTo(n) ==
  IF n = 0 THEN {<<>>}
  ELSE LET shorter == SeqsUpTo(n - 1)
       IN shorter \cup {Append(s, b) : s \in {t \in shorter : Len(t) = n - 1}, b \in Alphabet}

ScenarioA == <<"h", "e", "l", "l", "o", " ", "{", "{", " ", "4", "2", " ", "}", "}",
               " ", "w", "o", "r", "l", "d">>
ScenarioB == <<"{", "{", " ", "-", "7", " ", "}", "}">>
ScenarioC == <<"{", "{", " ", "1", "\n", "}", "}">>
ScenarioD == <<"{", "{", " ", "x", " ", "}", "}">>
ScenarioF == <<"p", "l", "a", "i", "n", " ", "t", "e", "x", "t", ",", " ", "n", "o", " ",
               "b", "l", "o", "c", "k", "s">>
ScenarioTab == <<"a", "{", "{", "\t", "+", "1", "0", "\t", "-", "}", "}", "{">>

ScenarioRune == <<"0xC3", "0xA9", "{", "{", " ", "0xC3", "0xA9", "}", "}">>
ScenarioLead == <<"0xC3", "{", "{", "0xC3">>

Scenarios ==
  {ScenarioA, ScenarioB, ScenarioC, ScenarioD, ScenarioF, ScenarioTab, ScenarioRune,
   ScenarioLead}

Inputs == SeqsUpTo(MaxLen) \cup Scenarios
InputsLive == SeqsUpTo(MaxLenLive) \cup Scenarios

(***************************************************************************)
(* Library functions used by the scanner.                                  *)
(***************************************************************************)
\* strings.HasPrefix(l.input[p:], meta)
HasPrefix(p, meta) ==
  /\ p + Len(meta) <= Len(input)
  /\ \A k \in 1..Len(meta) : input[p + k] = meta[k]

\* utf8.DecodeRuneInString(l.input[p:]) for p < len(l.input), restricted to
\* the bytes of the model: an ASCII byte is its own rune, 0xC3 0xA9 is
\* U+00E9, and a lone lead or continuation byte is RuneError of width 1.
DecodeRuneInString(p) ==
  LET b == input[p + 1]
  IN IF b = "0xC3"
     THEN IF p + 2 <= Len(input) /\ input[p + 2] = "0xA9"
          THEN [r |-> "é", size |-> 2]
          ELSE [r |-> RuneError, size |-> 1]
     ELSE IF b = "0xA9"
          THEN [r |-> RuneError, size |-> 1]
          ELSE [r |-> b, size |-> 1]

\* strings.IndexRune(valid, r) >= 0, valid given as the set of its runes
IndexRune(valid, r) == r \in valid

\* the %#U rendering of a rune
CodePoint(r) ==
  CASE r = "{" -> "U+007B"
    [] r = "}" -> "U+007D"
    [] r = "x" -> "U+0078"
    [] r = "é" -> "U+00E9"
    [] r = RuneError -> "U+FFFD"

SharpU(r) == CodePoint(r) \o " '" \o r \o "'"

\* fmt.Sprintf(format, args) as errorf calls it: args is the variadic slice
\* itself, passed as ONE operand.  A format without verbs reports the operand
\* as EXTRA; the verb %#U is applied to each element of the slice, in brackets.
Sprintf(format, args) ==
  IF format = "unclosed block"
  THEN <<format \o "%!(EXTRA []interface {}=" \o "[]" \o ")">>
  ELSE <<"unexpected char in block: " \o "[" \o SharpU(args[1]) \o "]">>

(***************************************************************************)
(* The lexer as a record, threaded through the cursor primitives.  ret is  *)
(* the value returned by the last call; hist is the history of every span  *)
(* sent or dropped, with its offsets; trail is the log of the cursor       *)
(* operations of the running state function, each with the cursor it left; *)
(* last is the latest of next and backup to have been called in the scan.  *)
(***************************************************************************)
\* the cursor as operation op leaves it
Log(l, op) ==
  [l EXCEPT !.trail = Append(l.trail, [op |-> op, start |-> l.start, pos |-> l.pos,
                                       width |-> l.width, before |-> l.last]),
            !.last = IF op \in {"next", "backup"} THEN op ELSE l.last]

Slice(lo, hi) == SubSeq(input, lo + 1, hi)

\* The(S) is the element of the singleton S; {e(x) : x \in {v}} evaluates v
\* once and binds its value to x, as a local variable of the Go code does.
The(S) == CHOOSE x \in S : TRUE

\* emit that forgets l.start = l.pos
emit_keepStart(l, t) ==
  IF l.blocked THEN l
  ELSE IF Len(l.items) >= ItemsCap THEN [l EXCEPT !.blocked = TRUE]
  ELSE Log([l EXCEPT !.items = Append(l.items, [typ |-> t, val |-> Slice(l.start, l.pos)]),
                     !.hist = Append(l.hist, [typ |-> t, val |-> Slice(l.start, l.pos),
                                              lo |-> l.start, hi |-> l.pos])], "emit")

\* func (l *lexer) emit(t itemType); a send on a full channel blocks forever
emit(l, t) ==
  IF l.blocked THEN l
  ELSE IF Len(l.items) >= ItemsCap THEN [l EXCEPT !.blocked = TRUE]
  ELSE Log([l EXCEPT !.items = Append(l.items, [typ |-> t, val |-> Slice(l.start, l.pos)]),
                     !.hist = Append(l.hist, [typ |-> t, val |-> Slice(l.start, l.pos),
                                              lo |-> l.start, hi |-> l.pos]),
                     !.start = l.pos], "emit")

\* func (l *lexer) next() (r rune)
next(l) ==
  IF l.pos >= Len(input)
  THEN Log([l EXCEPT !.width = 0, !.ret = eof], "next")
  ELSE LET d == DecodeRuneInString(l.pos)
       IN Log([l EXCEPT !.width = d.size, !.pos = l.pos + d.size, !.ret = d.r], "next")

\* ignore that leaves l.start alone
ignore_noop(l) == l

\* func (l *lexer) ignore()
ignore(l) ==
  Log([l EXCEPT !.hist = Append(l.hist, [typ |-> "ignore", val |-> Slice(l.start, l.pos),
                                         lo |-> l.start, hi |-> l.pos]),
                !.start = l.pos], "ignore")

\* func (l *lexer) backup()
backup(l) == Log([l EXCEPT !.pos = l.pos - l.width], "backup")

\* func (l *lexer) peak() rune
peak(l) == The({[backup(n) EXCEPT !.ret = n.ret] : n \in {next(l)}})

\* func (l *lexer) accept(valid string) bool
accept(l, valid) ==
  The({IF IndexRune(valid, n.ret) THEN [n EXCEPT !.ret = TRUE]
       ELSE [backup(n) EXCEPT !.ret = FALSE] : n \in {next(l)}})

\* acceptRun that forgets the final backup
RECURSIVE acceptRun_noBackup(_, _)
acceptRun_noBackup(l, valid) ==
  The({IF IndexRune(valid, n.ret) THEN acceptRun_noBackup(n, valid) ELSE n : n \in {next(l)}})

\* func (l *lexer) acceptRun(valid string)
RECURSIVE acceptRun(_, _)
acceptRun(l, valid) ==
  The({IF IndexRune(valid, n.ret) THEN acceptRun(n, valid) ELSE backup(n) : n \in {next(l)}})

\* errorf that returns the running state function instead of nil
errorf_continue(l, format, args) ==
  IF l.blocked THEN l
  ELSE IF Len(l.items) >= ItemsCap THEN [l EXCEPT !.blocked = TRUE]
  ELSE [l EXCEPT !.items = Append(l.items, [typ |-> itemError, val |-> Sprintf(format, args)]),
                 !.hist = Append(l.hist, [typ |-> itemError, val |-> Sprintf(format, args),
                                          lo |-> l.start, hi |-> l.pos])]

\* func (l *lexer) errorf(format string, args ...interface{}) stateFn
errorf(l, format, args) ==
  IF l.blocked THEN l
  ELSE IF Len(l.items) >= ItemsCap THEN [l EXCEPT !.blocked = TRUE]
  ELSE [l EXCEPT !.items = Append(l.items, [typ |-> itemError, val |-> Sprintf(format, args)]),
                 !.hist = Append(l.hist, [typ |-> itemError, val |-> Sprintf(format, args),
                                          lo |-> l.start, hi |-> l.pos]),
                 !.state = "nil"]

(***************************************************************************)
(* The state functions.  Each returns the lexer with state set to the      *)
(* state function it returns.                                              *)
(***************************************************************************)
\* lexText that does not flush the buffered text at end of input
RECURSIVE lexText_dropTail(_)
lexText_dropTail(l) ==
  IF HasPrefix(l.pos, leftMeta)
  THEN [(IF l.pos > l.start THEN emit(l, itemText) ELSE l) EXCEPT !.state = "lexLeftMeta"]
  ELSE The({IF n.ret = eof
            THEN [emit(n, itemEOF) EXCEPT !.state = "nil"]
            ELSE lexText_dropTail(n) : n \in {next(l)}})

\* lexText that returns nil at end of input without sending itemEOF
RECURSIVE lexText_noEOF(_)
lexText_noEOF(l) ==
  IF HasPrefix(l.pos, leftMeta)
  THEN [(IF l.pos > l.start THEN emit(l, itemText) ELSE l) EXCEPT !.state = "lexLeftMeta"]
  ELSE The({IF n.ret = eof
            THEN [(IF n.pos > n.start THEN emit(n, itemText) ELSE n) EXCEPT !.state = "nil"]
            ELSE lexText_noEOF(n) : n \in {next(l)}})

\* lexText that sends the text before "{{" even when there is none
RECURSIVE lexText_emitEmpty(_)
lexText_emitEmpty(l) ==
  IF HasPrefix(l.pos, leftMeta)
  THEN [(IF l.pos >= l.start THEN emit(l, itemText) ELSE l) EXCEPT !.state = "lexLeftMeta"]
  ELSE The({IF n.ret = eof
            THEN The({[emit(t, itemEOF) EXCEPT !.state = "nil"] :
                      t \in {IF n.pos > n.start THEN emit(n, itemText) ELSE n}})
            ELSE lexText_emitEmpty(n) : n \in {next(l)}})

RECURSIVE lexText(_)
lexText(l) ==
  IF HasPrefix(l.pos, leftMeta)
  THEN [(IF l.pos > l.start THEN emit(l, itemText) ELSE l) EXCEPT !.state = "lexLeftMeta"]
  ELSE The({IF n.ret = eof
            THEN The({[emit(t, itemEOF) EXCEPT !.state = "nil"] :
                      t \in {IF n.pos > n.start THEN emit(n, itemText) ELSE n}})
            ELSE lexText(n) : n \in {next(l)}})

lexLeftMeta(l) ==
  [emit(Log([l EXCEPT !.pos = l.pos + Len(leftMeta)], "advance"), itemLeftMeta)
     EXCEPT !.state = "lexInsideBlock"]

\* lexRightMeta that returns lexInsideBlock
lexRightMeta_stayInBlock(l) ==
  [emit(Log([l EXCEPT !.pos = l.pos + Len(rightMeta)], "advance"), itemRightMeta)
     EXCEPT !.state = "lexInsideBlock"]

lexRightMeta(l) ==
  [emit(Log([l EXCEPT !.pos = l.pos + Len(rightMeta)], "advance"), itemRightMeta)
     EXCEPT !.state = "lexText"]

\* lexInsideBlock that returns itself on a sign or digit
RECURSIVE lexInsideBlock_selfLoop(_)
lexInsideBlock_selfLoop(l) ==
  IF HasPrefix(l.pos, rightMeta)
  THEN [l EXCEPT !.state = "lexRightMeta"]
  ELSE The({CASE n.ret = eof \/ n.ret = "\n" -> errorf(n, "unclosed block", <<>>)
              [] n.ret = " " \/ n.ret = "\t" ->
                   The({lexInsideBlock_selfLoop(i) : i \in {ignore(n)}})
              [] n.ret = "+" \/ n.ret = "-" \/ n.ret \in digits ->
                   [backup(n) EXCEPT !.state = "lexInsideBlock"]
              [] OTHER -> errorf(n, "unexpected char in block: %#U", <<n.ret>>) :
            n \in {next(l)}})

\* lexInsideBlock that skips a newline as it skips a blank
RECURSIVE lexInsideBlock_newlineBlank(_)
lexInsideBlock_newlineBlank(l) ==
  IF HasPrefix(l.pos, rightMeta)
  THEN [l EXCEPT !.state = "lexRightMeta"]
  ELSE The({CASE n.ret = eof -> errorf(n, "unclosed block", <<>>)
              [] n.ret = " " \/ n.ret = "\t" \/ n.ret = "\n" ->
                   The({lexInsideBlock_newlineBlank(i) : i \in {ignore(n)}})
              [] n.ret = "+" \/ n.ret = "-" \/ n.ret \in digits ->
                   [backup(n) EXCEPT !.state = "lexNumber"]
              [] OTHER -> errorf(n, "unexpected char in block: %#U", <<n.ret>>) :
            n \in {next(l)}})

\* lexInsideBlock that skips a rune it does not know
RECURSIVE lexInsideBlock_skipUnknown(_)
lexInsideBlock_skipUnknown(l) ==
  IF HasPrefix(l.pos, rightMeta)
  THEN [l EXCEPT !.state = "lexRightMeta"]
  ELSE The({CASE n.ret = eof \/ n.ret = "\n" -> errorf(n, "unclosed block", <<>>)
              [] n.ret = "+" \/ n.ret = "-" \/ n.ret \in digits ->
                   [backup(n) EXCEPT !.state = "lexNumber"]
              [] OTHER -> The({lexInsideBlock_skipUnknown(i) : i \in {ignore(n)}}) :
            n \in {next(l)}})

\* lexInsideBlock that backs up twice before handing over to lexNumber
RECURSIVE lexInsideBlock_doubleBackup(_)
lexInsideBlock_doubleBackup(l) ==
  IF HasPrefix(l.pos, rightMeta)
  THEN [l EXCEPT !.state = "lexRightMeta"]
  ELSE The({CASE n.ret = eof \/ n.ret = "\n" -> errorf(n, "unclosed block", <<>>)
              [] n.ret = " " \/ n.ret = "\t" ->
                   The({lexInsideBlock_doubleBackup(i) : i \in {ignore(n)}})
              [] n.ret = "+" \/ n.ret = "-" \/ n.ret \in digits ->
                   The({[backup(b) EXCEPT !.state = "lexNumber"] : b \in {backup(n)}})
              [] OTHER -> errorf(n, "unexpected char in block: %#U", <<n.ret>>) :
            n \in {next(l)}})

RECURSIVE lexInsideBlock(_)
lexInsideBlock(l) ==
  IF HasPrefix(l.pos, rightMeta)
  THEN [l EXCEPT !.state = "lexRightMeta"]
  ELSE The({CASE n.ret = eof \/ n.ret = "\n" -> errorf(n, "unclosed block", <<>>)
              [] n.ret = " " \/ n.ret = "\t" -> The({lexInsideBlock(i) : i \in {ignore(n)}})
              [] n.ret = "+" \/ n.ret = "-" \/ n.ret \in digits ->
                   [backup(n) EXCEPT !.state = "lexNumber"]
              [] OTHER -> errorf(n, "unexpected char in block: %#U", <<n.ret>>) :
            n \in {next(l)}})

\* lexNumber that sends its span as text
lexNumber_asText(l) ==
  The({[emit(r, itemText) EXCEPT !.state = "lexInsideBlock"] :
       r \in {The({acceptRun(a, digits) : a \in {accept(l, {"+", "-"})}})}})

\* lexNumber that backs up once more after acceptRun
lexNumber_extraBackup(l) ==
  The({[emit(r, itemNumber) EXCEPT !.state = "lexInsideBlock"] :
       r \in {The({backup(c) : c \in {The({acceptRun(a, digits) :
                                            a \in {accept(l, {"+", "-"})}})}})}})

\* lexNumber that accepts a run of signs
lexNumber_signRun(l) ==
  The({[emit(r, itemNumber) EXCEPT !.state = "lexInsideBlock"] :
       r \in {The({acceptRun(a, digits) : a \in {acceptRun(l, {"+", "-"})}})}})

lexNumber(l) ==
  The({[emit(r, itemNumber) EXCEPT !.state = "lexInsideBlock"] :
       r \in {The({acceptRun(a, digits) : a \in {accept(l, {"+", "-"})}})}})

(***************************************************************************)
(* Construction, the engine and the driver.                                *)
(***************************************************************************)
\* func NewScanner(name, input string) *lexer; name is only stored
NewScanner(in) ==
  [input |-> in, state |-> "lexText", start |-> 0, pos |-> 0, width |-> 0, items |-> <<>>]

Init ==
  /\ \E in \in Inputs :
       LET s == NewScanner(in)
       IN /\ input = s.input
          /\ state = s.state
          /\ start = s.start
          /\ pos = s.pos
          /\ width = s.width
          /\ items = s.items
  /\ pc = "main"
  /\ received = <<>>
  /\ hist = <<>>
  /\ blocked = FALSE
  /\ trail = <<>>
  /\ last = "none"

InitLive ==
  /\ \E in \in InputsLive :
       LET s == NewScanner(in)
       IN /\ input = s.input
          /\ state = s.state
          /\ start = s.start
          /\ pos = s.pos
          /\ width = s.width
          /\ items = s.items
  /\ pc = "main"
  /\ received = <<>>
  /\ hist = <<>>
  /\ blocked = FALSE
  /\ trail = <<>>
  /\ last = "none"

Lexer ==
  [state |-> state, start |-> start, pos |-> pos, width |-> width, items |-> items,
   hist |-> hist, blocked |-> blocked, ret |-> eof, trail |-> <<>>, last |-> last]

\* l.state = l.state(l): the fields the call leaves behind; a call blocked in
\* a send never returns
Install(n) ==
  /\ state' = IF n.blocked THEN state ELSE n.state
  /\ start' = n.start
  /\ pos' = n.pos
  /\ width' = n.width
  /\ items' = n.items
  /\ hist' = n.hist
  /\ blocked' = n.blocked
  /\ trail' = n.trail
  /\ last' = n.last
  /\ pc' = IF n.blocked THEN "blocked" ELSE pc
  /\ UNCHANGED <<input, received>>

\* a nextItem that runs the state function without looking at the channel
Default_anyQueue(fn) == pc = "nextItem" /\ state = fn

\* the default case of the select in nextItem
Default(fn) == pc = "nextItem" /\ items = <<>> /\ state = fn

RunLexText == Default("lexText") /\ \E n \in {lexText(Lexer)} : Install(n)
RunLexLeftMeta == Default("lexLeftMeta") /\ \E n \in {lexLeftMeta(Lexer)} : Install(n)
RunLexRightMeta == Default("lexRightMeta") /\ \E n \in {lexRightMeta(Lexer)} : Install(n)
RunLexInsideBlock == Default("lexInsideBlock") /\ \E n \in {lexInsideBlock(Lexer)} : Install(n)
RunLexNumber == Default("lexNumber") /\ \E n \in {lexNumber(Lexer)} : Install(n)

\* the default case with l.state == nil: calling a nil func panics
RunNil ==
  /\ Default("nil")
  /\ pc' = "panic"
  /\ UNCHANGED <<input, state, start, pos, width, items, received, hist, blocked, trail, last>>

\* main: what the loop does with the item nextItem returned
mainLoop(i) == IF i.typ # itemEOF THEN "main" ELSE "done"

\* case i := <-l.items: return i, to the loop of main
nextItemReturn ==
  /\ pc = "nextItem"
  /\ items # <<>>
  /\ received' = Append(received, Head(items))
  /\ items' = Tail(items)
  /\ pc' = mainLoop(Head(items))
  /\ UNCHANGED <<input, state, start, pos, width, hist, blocked, trail, last>>

\* main: s.nextItem()
mainCall ==
  /\ pc = "main"
  /\ pc' = "nextItem"
  /\ UNCHANGED <<input, state, start, pos, width, items, received, hist, blocked, trail, last>>

Next ==
  \/ mainCall
  \/ nextItemReturn
  \/ RunLexText
  \/ RunLexLeftMeta
  \/ RunLexRightMeta
  \/ RunLexInsideBlock
  \/ RunLexNumber
  \/ RunNil

Spec == Init /\ [][Next]_vars

\* main is the only thread and never waits: it runs while it can take a step
LiveSpec == InitLive /\ [][Next]_vars /\ WF_vars(Next)

TypeOK ==
  /\ state \in {"lexText", "lexLeftMeta", "lexRightMeta", "lexInsideBlock", "lexNumber", "nil"}
  /\ pc \in {"main", "nextItem", "done", "panic", "blocked"}
  /\ start \in Int /\ pos \in Int /\ width \in 0..2
  /\ blocked \in BOOLEAN
  /\ last \in {"none", "next", "backup"}

(***************************************************************************)
(* Vocabulary of the properties.                                           *)
(***************************************************************************)
RECURSIVE Flatten(_)
Flatten(h) == IF h = <<>> THEN <<>> ELSE Head(h).val \o Flatten(Tail(h))

Item(e) == [typ |-> e.typ, val |-> e.val]

RECURSIVE Items(_)
Items(h) == IF h = <<>> THEN <<>> ELSE <<Item(Head(h))>> \o Items(Tail(h))

IsIgnore(e) == e.typ = "ignore"
IsSent(e) == e.typ # "ignore"
IsSpan(e) == e.typ \in {itemText, itemLeftMeta, itemRightMeta, itemNumber, "ignore"}
IsTerminal(e) == e.typ \in {itemEOF, itemError}

\* every item sent on the channel, in order
Emitted == SelectSeq(hist, IsSent)

\* the items and dropped spans that cover input
Spans == SelectSeq(hist, IsSpan)

Blank == {" ", "\t"}

Final == pc \in {"done", "panic", "blocked"}

ErrorSeen(s) == \E i \in 1..Len(s) : s[i].typ = itemError
TerminalSeen(s) == \E i \in 1..Len(s) : IsTerminal(s[i])

Contains(s, sub) ==
  \E p \in 0..(Len(s) - Len(sub)) : \A k \in 1..Len(sub) : s[p + k] = sub[k]

(***************************************************************************)
(* C1.  Coverage: at every point of a scan the values of the Text,         *)
(* LeftMeta, RightMeta and Number items sent so far, together with the     *)
(* spans dropped by ignore (blanks only), concatenated in order, are       *)
(* exactly input[0:start]; each span is the slice at its offsets, begins   *)
(* where the previous one ended, and the items sent are the items the      *)
(* driver received followed by those still in the channel.                 *)
(***************************************************************************)
C1_Coverage ==
  /\ Flatten(Spans) = Slice(0, start)
  /\ \A i \in 1..Len(Spans) :
       /\ Spans[i].lo = (IF i = 1 THEN 0 ELSE Spans[i - 1].hi)
       /\ Spans[i].lo <= Spans[i].hi
       /\ Spans[i].val = Slice(Spans[i].lo, Spans[i].hi)
       /\ IsIgnore(Spans[i]) => \A k \in 1..Len(Spans[i].val) : Spans[i].val[k] \in Blank
  /\ (Spans # <<>>) => Spans[Len(Spans)].hi = start
  /\ received \o items = Items(Emitted)

C1_Witness ==
  /\ pc = "done"
  /\ \E i \in 1..Len(hist) : IsIgnore(hist[i])
  /\ \E i \in 1..Len(hist) : hist[i].typ = itemNumber
  /\ \E i \in 1..Len(hist) : hist[i].typ = itemText

(***************************************************************************)
(* C2.  Termination: the driver eventually receives a terminal item        *)
(* (itemEOF or itemError).                                                 *)
(***************************************************************************)
C2_Termination == <>TerminalSeen(received)

C2_Witness ==
  /\ TerminalSeen(received)
  /\ \E i \in 1..Len(received) : received[i].typ = itemNumber

(***************************************************************************)
(* C3.  At most one terminal item is ever sent and it is the last item     *)
(* sent; once it is sent the state is nil and no state function changes    *)
(* the lexer or sends an item again; a scan that ends without an error     *)
(* has sent itemEOF exactly once.                                          *)
(***************************************************************************)
C3_TerminalState ==
  /\ \A i \in 1..Len(Emitted) : IsTerminal(Emitted[i]) => (i = Len(Emitted) /\ state = "nil")
  /\ (state = "nil") => TerminalSeen(Emitted)
  /\ (state = "nil" /\ ~ErrorSeen(Emitted)) =>
        Cardinality({i \in 1..Len(Emitted) : Emitted[i].typ = itemEOF}) = 1

C3_TerminalLast ==
  /\ []C3_TerminalState
  /\ [][TerminalSeen(Emitted) =>
          (hist' = hist /\ state' = state /\ start' = start /\ pos' = pos /\ width' = width
           /\ Len(items') <= Len(items))]_vars

C3_Witness ==
  /\ pc = "panic"
  /\ ErrorSeen(received)
  /\ Len(received) >= 3

(***************************************************************************)
(* C4.  Scenario A: scanning "hello {{ 42 }} world" returns Text("hello "),*)
(* LeftMeta("{{"), Number("42"), RightMeta("}}"), Text(" world"), EOF, in  *)
(* this order and nothing else.                                            *)
(***************************************************************************)
ScenarioAItems ==
  << [typ |-> itemText, val |-> <<"h", "e", "l", "l", "o", " ">>],
     [typ |-> itemLeftMeta, val |-> <<"{", "{">>],
     [typ |-> itemNumber, val |-> <<"4", "2">>],
     [typ |-> itemRightMeta, val |-> <<"}", "}">>],
     [typ |-> itemText, val |-> <<" ", "w", "o", "r", "l", "d">>],
     [typ |-> itemEOF, val |-> <<>>] >>

C4_ScenarioA ==
  (input = ScenarioA) =>
     /\ Len(received) <= Len(ScenarioAItems)
     /\ received = SubSeq(ScenarioAItems, 1, Len(received))
     /\ Final => (pc = "done" /\ received = ScenarioAItems)

C4_Witness == input = ScenarioA /\ pc = "done" /\ Len(received) = 6

(***************************************************************************)
(* C5.  When lexInsideBlock runs and, past the blanks it skips, the        *)
(* remaining input does not start with "}}" and the next rune is not a     *)
(* sign or a digit (end of input and newline included), the call sends     *)
(* exactly one itemError and returns nil, having read just that rune; and  *)
(* once the state is nil the cursor never moves and nothing is sent.       *)
(***************************************************************************)
SkipBlanks(p) ==
  CHOOSE q \in p..Len(input) :
    /\ \A k \in (p + 1)..q : input[k] \in Blank
    /\ q = Len(input) \/ input[q + 1] \notin Blank

RuneAt(q) == IF q >= Len(input) THEN eof ELSE DecodeRuneInString(q).r
SizeAt(q) == IF q >= Len(input) THEN 0 ELSE DecodeRuneInString(q).size

C5_Case ==
  /\ Default("lexInsideBlock")
  /\ ~HasPrefix(SkipBlanks(pos), rightMeta)
  /\ RuneAt(SkipBlanks(pos)) \notin (Blank \cup {"+", "-"} \cup digits)

C5_BlockError ==
  [][/\ C5_Case =>
          /\ Len(items') = 1
          /\ items'[1].typ = itemError
          /\ Len(SelectSeq(hist', IsSent)) = Len(Emitted) + 1
          /\ ~ErrorSeen(hist)
          /\ state' = "nil"
          /\ pos' = SkipBlanks(pos) + SizeAt(SkipBlanks(pos))
     /\ (state = "nil") => (pos' = pos /\ start' = start /\ hist' = hist)]_vars

C5_Witness ==
  /\ state = "nil"
  /\ ErrorSeen(hist)
  /\ pos < Len(input)
  /\ \E i \in 1..Len(hist) : IsIgnore(hist[i])

ScenarioCItems ==
  << [typ |-> itemLeftMeta, val |-> <<"{", "{">>],
     [typ |-> itemNumber, val |-> <<"1">>],
     [typ |-> itemError, val |-> <<"unclosed block%!(EXTRA []interface {}=[])">>] >>

ScenarioDItems ==
  << [typ |-> itemLeftMeta, val |-> <<"{", "{">>],
     [typ |-> itemError, val |-> <<"unexpected char in block: [U+0078 'x']">>] >>

PlainItems ==
  IF input = <<>>
  THEN << [typ |-> itemEOF, val |-> <<>>] >>
  ELSE << [typ |-> itemText, val |-> input], [typ |-> itemEOF, val |-> <<>>] >>

C8_PlainText ==
  (~Contains(input, leftMeta)) =>
     /\ Len(received) <= Len(PlainItems)
     /\ received = SubSeq(PlainItems, 1, Len(received))
     /\ Final => (pc = "done" /\ received = PlainItems)

C8_Witness ==
  /\ ~Contains(input, leftMeta)
  /\ Contains(input, <<"{">>)
  /\ Contains(input, <<"}", "}">>)
  /\ pc = "done"
  /\ Len(received) = 2

(***************************************************************************)
(* C9.  The driver stops as soon as it has received an EOF or an Error     *)
(* item: main is never inside a call of nextItem after an Error item was   *)
(* returned to it.                                                         *)
(***************************************************************************)
C9_DriverStops == ~(pc = "nextItem" /\ ErrorSeen(received))

(***************************************************************************)
(* C10.  As stated: a block holds at most one Number item, that is, two    *)
(* Number items are always separated by a LeftMeta, RightMeta or terminal  *)
(* item.                                                                   *)
(***************************************************************************)
C10_AtMostOneNumber_Original ==
  \A i, j \in 1..Len(Emitted) :
    (i < j /\ Emitted[i].typ = itemNumber /\ Emitted[j].typ = itemNumber) =>
       \E k \in (i + 1)..(j - 1) :
          Emitted[k].typ \in {itemLeftMeta, itemRightMeta, itemEOF, itemError}

(***************************************************************************)
(* C10, amended.  A block holds zero or more Number items and nothing      *)
(* else: every item sent after a LeftMeta and before the next RightMeta or *)
(* Error item is a non-empty Number item, and the item that ends the block *)
(* is a RightMeta or an Error, never EOF or Text.                          *)
(***************************************************************************)
InBlock(j) ==
  \E i \in 1..(j - 1) :
    /\ Emitted[i].typ = itemLeftMeta
    /\ \A k \in (i + 1)..(j - 1) : Emitted[k].typ \notin {itemRightMeta, itemEOF, itemError}

C10_OnlyNumbersInBlock ==
  \A j \in 1..Len(Emitted) :
    InBlock(j) =>
      /\ Emitted[j].typ \in {itemNumber, itemRightMeta, itemError}
      /\ Emitted[j].typ = itemNumber => Emitted[j].val # <<>>

C10_Witness ==
  \E i \in 1..Len(Emitted) :
    /\ i + 3 <= Len(Emitted)
    /\ Emitted[i].typ = itemLeftMeta
    /\ Emitted[i + 1].typ = itemNumber
    /\ Emitted[i + 2].typ = itemNumber
    /\ Emitted[i + 3].typ = itemRightMeta

(***************************************************************************)
(* C12.  Cursor invariant: 0 <= start <= pos <= len(input) after every     *)
(* cursor operation of every state function and on return from it.         *)
(***************************************************************************)
CursorOK(s, p) == 0 <= s /\ s <= p /\ p <= Len(input)

C12_CursorInvariant ==
  /\ CursorOK(start, pos)
  /\ \A i \in 1..Len(trail) : CursorOK(trail[i].start, trail[i].pos)

C12_Witness ==
  /\ \E i \in 1..Len(trail) :
       trail[i].op = "backup" /\ trail[i].width > 0 /\ trail[i].pos = trail[i].start
  /\ \E i \in 1..Len(trail) :
       trail[i].op = "next" /\ trail[i].width = 0 /\ trail[i].pos = Len(input)
  /\ \E i \in 1..Len(hist) : hist[i].typ = itemLeftMeta

(***************************************************************************)
(* C13.  As stated: every invocation of a state function leaves pos        *)
(* greater than on entry, or sends an item, or returns nil.                *)
(***************************************************************************)
StateFnRuns == pc = "nextItem" /\ items = <<>> /\ state # "nil"

C13_Progress_Original ==
  [][StateFnRuns =>
       \/ pos' > pos
       \/ Len(SelectSeq(hist', IsSent)) > Len(Emitted)
       \/ state' = "nil"]_vars

(***************************************************************************)
(* C13, amended.  Every invocation of a state function leaves pos greater  *)
(* than on entry, or sends an item, or returns nil, or returns a state     *)
(* function other than itself that is one of lexLeftMeta, lexRightMeta and *)
(* lexNumber; and each invocation of one of these three both advances pos  *)
(* and sends an item.                                                      *)
(***************************************************************************)
C13_Progress ==
  [][StateFnRuns =>
       /\ \/ pos' > pos
          \/ Len(SelectSeq(hist', IsSent)) > Len(Emitted)
          \/ state' = "nil"
          \/ state' # state /\ state' \in {"lexLeftMeta", "lexRightMeta", "lexNumber"}
       /\ state \in {"lexLeftMeta", "lexRightMeta", "lexNumber"} =>
            (pos' > pos /\ Len(SelectSeq(hist', IsSent)) > Len(Emitted))]_vars

C13_Witness ==
  /\ state = "lexNumber"
  /\ start = pos
  /\ \E i \in 1..Len(trail) : trail[i].op = "backup"
  /\ \A i \in 1..Len(trail) : trail[i].op # "emit"

(***************************************************************************)
(* C14.  As long as the driver has not been handed a terminal item,        *)
(* nextItem never finds the channel empty while the state is nil: the nil  *)
(* state is called only in a call of nextItem made after itemEOF or        *)
(* itemError was returned.                                                 *)
(***************************************************************************)
C14_NilNeverInvoked == Default("nil") => TerminalSeen(received)

C14_Witness ==
  /\ pc = "nextItem"
  /\ state = "nil"
  /\ items # <<>>
  /\ ~TerminalSeen(received)
  /\ Len(received) >= 2

(***************************************************************************)
(* C15.  Lazy, bounded buffering: a state function runs only when the      *)
(* channel is empty; the channel never holds more than its capacity of 2   *)
(* items and no send blocks; when nextItem returns an item at most one     *)
(* further item is left in the channel.                                    *)
(***************************************************************************)
C15_Bounded == Len(items) <= ItemsCap /\ ~blocked /\ pc # "blocked"

C15_LazyBounded ==
  /\ []C15_Bounded
  /\ [][/\ (state' # state \/ start' # start \/ pos' # pos \/ hist' # hist \/ trail' # trail)
             => items = <<>>
        /\ (received' # received) => Len(items') <= 1]_vars

C15_Witness == Len(items) = ItemsCap /\ pc = "nextItem" /\ Len(received) >= 3

(***************************************************************************)
(* C16.  Backup discipline: every call of backup comes directly after a    *)
(* call of next, with no other backup in between, in the whole scan.       *)
(***************************************************************************)
C16_BackupDiscipline ==
  \A i \in 1..Len(trail) : trail[i].op = "backup" => trail[i].before = "next"

C16_Witness ==
  /\ Len(trail) >= 4
  /\ trail[1].op = "next"
  /\ trail[1].before = "backup"
  /\ trail[2].op = "backup"
  /\ trail[Len(trail) - 1].op = "backup"

(***************************************************************************)
(* C17.  Every Number item is an optional single sign followed by the      *)
(* maximal run of ASCII digits at that place (possibly none, so a lone     *)
(* sign is a Number item); lexNumber sends exactly that item, starting at  *)
(* the pos it was entered with, and returns lexInsideBlock with pos and    *)
(* start at the first byte after the number.                               *)
(***************************************************************************)
Signs == {"+", "-"}

C17_Shape ==
  \A i \in 1..Len(hist) :
    hist[i].typ = itemNumber =>
      /\ hist[i].val # <<>>
      /\ hist[i].val[1] \in (Signs \cup digits)
      /\ \A k \in 2..Len(hist[i].val) : hist[i].val[k] \in digits
      /\ hist[i].hi = Len(input) \/ input[hist[i].hi + 1] \notin digits

C17_Number ==
  /\ []C17_Shape
  /\ [][(StateFnRuns /\ state = "lexNumber") =>
          /\ Len(hist') = Len(hist) + 1
          /\ hist'[Len(hist')].typ = itemNumber
          /\ hist'[Len(hist')].lo = pos
          /\ hist'[Len(hist')].hi = pos'
          /\ start' = pos'
          /\ state' = "lexInsideBlock"]_vars

C17_Witness ==
  /\ \E i \in 1..Len(hist) : hist[i].typ = itemNumber /\ hist[i].val = <<"-">>
  /\ \E i \in 1..Len(hist) : hist[i].typ = itemNumber /\ Len(hist[i].val) = 3
  /\ state = "lexInsideBlock"

(***************************************************************************)
(* C18.  Ordering of the items: a LeftMeta or a Number is followed only by *)
(* a Number, a RightMeta or an Error; a Number, a RightMeta and an Error   *)
(* come only directly after a LeftMeta or a Number; so a Text or EOF never *)
(* lies between a LeftMeta and its RightMeta, and every RightMeta closes a *)
(* LeftMeta with only Numbers between them.                                *)
(***************************************************************************)
C18_Ordering ==
  \A j \in 1..Len(Emitted) :
    LET t == Emitted[j].typ
        p == IF j = 1 THEN "none" ELSE Emitted[j - 1].typ
    IN /\ p \in {itemLeftMeta, itemNumber} => t \in {itemNumber, itemRightMeta, itemError}
       /\ t \in {itemNumber, itemRightMeta, itemError} => p \in {itemLeftMeta, itemNumber}
       /\ t = itemRightMeta =>
            \E i \in 1..(j - 1) :
              /\ Emitted[i].typ = itemLeftMeta
              /\ \A k \in (i + 1)..(j - 1) : Emitted[k].typ = itemNumber

C18_Witness ==
  /\ pc = "done"
  /\ \E j \in 2..Len(Emitted) :
       Emitted[j].typ = itemRightMeta /\ Emitted[j - 1].typ = itemLeftMeta
  /\ \E j \in 1..Len(Emitted) : Emitted[j].typ = itemText

(***************************************************************************)
(* C19.  When lexInsideBlock hands over to lexRightMeta start = pos, so    *)
(* nothing pending is dropped; every RightMeta item is exactly "}}" and    *)
(* every LeftMeta item exactly "{{".                                       *)
(***************************************************************************)
C19_NoPendingAtDelimiter ==
  /\ state \in {"lexRightMeta", "lexLeftMeta"} => start = pos
  /\ \A i \in 1..Len(hist) :
       /\ hist[i].typ = itemRightMeta => hist[i].val = rightMeta
       /\ hist[i].typ = itemLeftMeta => hist[i].val = leftMeta

C19_Witness ==
  /\ state = "lexRightMeta"
  /\ \E i \in 1..Len(trail) : trail[i].op = "ignore"
  /\ \E i \in 1..Len(hist) : hist[i].typ = itemNumber

(***************************************************************************)
(* C20.  Every Text item is non-empty and does not contain "{{", and no    *)
(* Text item directly follows another Text item.                           *)
(***************************************************************************)
C20_Text ==
  \A i \in 1..Len(Emitted) :
    Emitted[i].typ = itemText =>
      /\ Emitted[i].val # <<>>
      /\ ~Contains(Emitted[i].val, leftMeta)
      /\ i > 1 => Emitted[i - 1].typ # itemText

C20_Witness ==
  \E i, j \in 1..Len(Emitted) :
    /\ i < j
    /\ Emitted[i].typ = itemText
    /\ Emitted[j].typ = itemText
    /\ Contains(Emitted[j].val, <<"{">>)
====
